---------------------------- MODULE Spec2Model ----------------------------
(***************************************************************************)
(* VRBBoxHead (mmdet/models/roi_heads/bbox_heads/vr_bbox_head.py): target  *)
(* assignment, loss composition, decoding and cascade refinement of the    *)
(* head, as state machines over small tensors.                             *)
(*                                                                         *)
(* A 2-D tensor is a record [n, m, d]: n rows, m columns and the row-major *)
(* data d (so a tensor with zero rows still has its column count, and      *)
(* view() is a reinterpretation of d).  A 1-D tensor is a sequence.        *)
(* Floating point values are scaled integers: ratios and ratio_thr are in  *)
(* tenths, weights are whole numbers.  Values produced by code outside     *)
(* this file (the coders' encode and decode, the loss functions, softmax,  *)
(* NMS) are either carried as inputs or kept as uninterpreted terms.       *)
(***************************************************************************)
EXTENDS Integers, Sequences, FiniteSets, TLC

VARIABLES reg_class_agnostic, \* self.reg_class_agnostic
          fc_theta,           \* self.fc_theta, the affine regressor
          history,            \* the operations carried out on the head so far
          args,               \* the arguments of the call in progress
          pc,                 \* where the call is
          ret                 \* what the call has built or returned so far

vars == <<reg_class_agnostic, fc_theta, history, args, pc, ret>>

---------------------------------------------------------------------------
(* Bounds of the model. *)

\* self.num_classes (15 by default), scaled down
num_classes == 2
\* self.num_bins (4 by default), scaled down
num_bins == 2
\* at most this many images per batch
MaxImgs == 2
\* at most this many RoIs (rows) in a batch
MaxRows == 3

\* self.in_channels * self.roi_feat_area (256 * 49 by default), scaled down
in_features == 1
\* at most this many RoIs in the batch handed to forward
MaxSamples == 1
\* at most this many forward calls in a run
MaxCalls == 2
\* at most this many updates of the parameters in a run
MaxUpdates == 1

\* self.ratio_thr = 0.8, in tenths
ratio_thr == 8

---------------------------------------------------------------------------
(* Tensors. *)

\* the n x m tensor whose element (i, j) is f[i, j]
Tensor(n, m, f) ==
    [n |-> n, m |-> m,
     d |-> [k \in 1..(n * m) |-> f[((k - 1) \div m) + 1, ((k - 1) % m) + 1]]]

At(t, i, j) == t.d[(i - 1) * t.m + j]

Row(t, i) == [j \in 1..t.m |-> At(t, i, j)]

\* x.new_full((n, m), v); new_zeros is new_full with 0
new_full(n, m, v) == Tensor(n, m, [i \in 1..n, j \in 1..m |-> v])

new_zeros(n, m) == new_full(n, m, 0)

\* the head before its first forward call: __init__ creates no fc_theta
NoLayer == [id |-> 0, weight |-> new_zeros(0, 0), bias |-> <<>>]

\* t[lo:hi, :] = src  (Python slice lo..hi-1, rows 0-based; src has hi-lo rows)
SetRows(t, lo, hi, src) ==
    Tensor(t.n, t.m, [i \in 1..t.n, j \in 1..t.m |->
                         IF lo < i /\ i <= hi THEN At(src, i - lo, j)
                                              ELSE At(t, i, j)])

\* t[lo:hi, :] = v  for a scalar v
FillRows(t, lo, hi, v) ==
    Tensor(t.n, t.m, [i \in 1..t.n, j \in 1..t.m |->
                         IF lo < i /\ i <= hi THEN v ELSE At(t, i, j)])

\* 1-D versions
SetSlice(s, lo, hi, src) ==
    [i \in 1..Len(s) |-> IF lo < i /\ i <= hi THEN src[i - lo] ELSE s[i]]

FillSlice(s, lo, hi, v) ==
    [i \in 1..Len(s) |-> IF lo < i /\ i <= hi THEN v ELSE s[i]]

RECURSIVE SumLen(_)
SumLen(ts) == IF ts = <<>> THEN 0 ELSE Head(ts).n + SumLen(Tail(ts))

RECURSIVE CatData(_)
CatData(ts) == IF ts = <<>> THEN <<>> ELSE Head(ts).d \o CatData(Tail(ts))

\* torch.cat(ts, 0) of a non-empty list of 2-D tensors of the same width
Cat2(ts) == [n |-> SumLen(ts), m |-> ts[1].m, d |-> CatData(ts)]

RECURSIVE Cat1(_)
\* torch.cat(ss, 0) of 1-D tensors
Cat1(ss) == IF ss = <<>> THEN <<>> ELSE Head(ss) \o Cat1(Tail(ss))

Field(list, f) == [k \in 1..Len(list) |-> list[k][f]]

---------------------------------------------------------------------------
(* get_targets and _get_target_single. *)

\* cfg.pos_weight values tried (-1 is mmdet's default)
PosWeights == {-1, 0, 2}

TargetFields2 == {"bbox_targets", "bbox_weights", "bin_cls_targets",
                  "bin_cls_weights", "bin_offset_targets",
                  "bin_offset_weights", "ratio_targets", "ratio_weights"}

\* a plausible slip: never an empty tensor
num_samples_at_least_one(num_pos, num_neg) ==
    IF num_pos + num_neg = 0 THEN 1 ELSE num_pos + num_neg

\* num_samples = num_pos + num_neg
num_samples_of(num_pos, num_neg) == num_pos + num_neg

\* a plausible slip: `<` for `<=`, so that pos_weight = 0 is kept
pos_weight_keeps_zero(cfg) == IF cfg.pos_weight < 0 THEN 1 ELSE cfg.pos_weight

\* pos_weight = 1.0 if cfg.pos_weight <= 0 else cfg.pos_weight
pos_weight_of(cfg) == IF cfg.pos_weight <= 0 THEN 1 ELSE cfg.pos_weight

\* the "original implementation" of the comment: new_zeros, background = 0
labels_new_zeros(n) == [i \in 1..n |-> 0]

\* labels = pos_bboxes.new_full((num_samples, ), self.num_classes)
labels_new_full(n) == [i \in 1..n |-> num_classes]

get_target_single(res, cfg) ==
    LET num_pos == Len(res.pos_bboxes)
        num_neg == Len(res.neg_bboxes)
        num_samples == num_samples_of(num_pos, num_neg)
        labels0 == labels_new_full(num_samples)
        label_weights0 == [i \in 1..num_samples |-> 0]
        pos_weight == pos_weight_of(cfg)
        z4 == new_zeros(num_samples, 4)
        zb == new_zeros(num_samples, 4 * num_bins)
        z1 == new_zeros(num_samples, 1)
        label_weights1 ==
            IF num_pos > 0 THEN FillSlice(label_weights0, 0, num_pos, pos_weight)
                           ELSE label_weights0
    IN  [labels |->
            IF num_pos > 0 THEN SetSlice(labels0, 0, num_pos, res.pos_gt_labels)
                           ELSE labels0,
         label_weights |->
            IF num_neg > 0
            THEN FillSlice(label_weights1, num_samples - num_neg, num_samples, 1)
            ELSE label_weights1,
         bbox_targets |->
            IF num_pos > 0 THEN SetRows(z4, 0, num_pos, res.bbox_encode) ELSE z4,
         bbox_weights |->
            IF num_pos > 0 THEN FillRows(z4, 0, num_pos, 1) ELSE z4,
         bin_cls_targets |->
            IF num_pos > 0 THEN SetRows(zb, 0, num_pos, res.bin_encode[1]) ELSE zb,
         bin_cls_weights |->
            IF num_pos > 0 THEN SetRows(zb, 0, num_pos, res.bin_encode[2]) ELSE zb,
         bin_offset_targets |->
            IF num_pos > 0 THEN SetRows(z4, 0, num_pos, res.bin_encode[3]) ELSE z4,
         bin_offset_weights |->
            IF num_pos > 0 THEN SetRows(z4, 0, num_pos, res.bin_encode[4]) ELSE z4,
         ratio_targets |->
            IF num_pos > 0 THEN SetRows(z1, 0, num_pos, res.ratio_encode) ELSE z1,
         ratio_weights |->
            IF num_pos > 0 THEN FillRows(z1, 0, num_pos, 1) ELSE z1]

\* the `if concat:` block of get_targets
concat_targets(outputs) ==
    [f \in {"labels", "label_weights"} \cup TargetFields2 |->
        IF f \in {"labels", "label_weights"}
        THEN Cat1(Field(outputs, f))
        ELSE Cat2(Field(outputs, f))]

(* The sampling results of a batch.  Image a's p-th positive RoI is the    *)
(* number 10*a + p and its q-th negative RoI is -(10*a + q); what the      *)
(* coders return for a positive RoI is carried with the sampling result:   *)
(* targets that name the RoI and the column, and the bin coder's weights,  *)
(* whose first corner is 0 when the coder could not place it in a bin      *)
(* (at most one such RoI per image: the `degenerate`-th, if not 0).        *)
CoderValue(a, p, j) == 1000 * a + 100 * p + j

SamplingResult(a, gt_labels, degenerate, num_neg) ==
    LET num_pos == Len(gt_labels)
        bin_ok == [p \in 1..num_pos |-> IF p = degenerate THEN 0 ELSE 1]
        binw(width) == Tensor(num_pos, width,
                              [p \in 1..num_pos, j \in 1..width |->
                                  IF j = 1 THEN bin_ok[p] ELSE 1])
        coded(width) == Tensor(num_pos, width,
                               [p \in 1..num_pos, j \in 1..width |->
                                   CoderValue(a, p, j)])
    IN  [pos_bboxes |-> [p \in 1..num_pos |-> 10 * a + p],
         neg_bboxes |-> [q \in 1..num_neg |-> -(10 * a + q)],
         pos_gt_labels |-> gt_labels,
         bin_ok |-> bin_ok,
         bbox_encode |-> coded(4),
         bin_encode |->
            <<coded(4 * num_bins),
              binw(4 * num_bins),
              coded(4),
              binw(4)>>,
         ratio_encode |-> coded(1)]

SeqsOfLen(S, k) == [1..k -> S]

\* every sampling result of image a with at most `rows` RoIs
SamplingResults(a, rows) ==
    UNION {UNION {{SamplingResult(a, gl, dg, rows2 - np) :
                      gl \in SeqsOfLen(0..(num_classes - 1), np),
                      dg \in 0..np} :
                  np \in 0..rows2} :
           rows2 \in 0..rows}

NumSamples(res) == Len(res.pos_bboxes) + Len(res.neg_bboxes)

RECURSIVE Batches(_, _, _)
\* the lists of exactly k sampling results (images a, a+1, ...) with at most
\* `rows` RoIs in all
Batches(a, k, rows) ==
    IF k = 0 THEN {<<>>}
    ELSE UNION {{<<res>> \o rest :
                    rest \in Batches(a + 1, k - 1, rows - NumSamples(res))} :
                res \in SamplingResults(a, rows)}

InitTargets ==
    /\ fc_theta = NoLayer
    /\ history = <<>>
    /\ reg_class_agnostic = FALSE
    /\ \E k \in 1..MaxImgs :
       \E sr \in Batches(1, k, MaxRows) :
       \E w \in PosWeights :
       \E c \in BOOLEAN :
          args = [op |-> "get_targets", sampling_results |-> sr,
                  rcnn_train_cfg |-> [pos_weight |-> w], concat |-> c]
    /\ pc = "multi_apply"
    /\ ret = <<>>

\* one call of _get_target_single by multi_apply, in list order
GetTargetSingle ==
    /\ args.op = "get_targets"
    /\ pc = "multi_apply"
    /\ Len(ret) < Len(args.sampling_results)
    /\ ret' = Append(ret, get_target_single(
                              args.sampling_results[Len(ret) + 1],
                              args.rcnn_train_cfg))
    /\ UNCHANGED <<reg_class_agnostic, fc_theta, history, args, pc>>

\* the rest of get_targets: the lists are concatenated (concat) or returned
GetTargetsReturn ==
    /\ args.op = "get_targets"
    /\ pc = "multi_apply"
    /\ Len(ret) = Len(args.sampling_results)
    /\ ret' = IF args.concat THEN concat_targets(ret) ELSE ret
    /\ pc' = "done"
    /\ UNCHANGED <<reg_class_agnostic, fc_theta, history, args>>

NextTargets == GetTargetSingle \/ GetTargetsReturn

SpecTargets == InitTargets /\ [][NextTargets]_vars

---------------------------------------------------------------------------
(* Claims about get_targets. *)

AllTargetFields == {"labels", "label_weights"} \cup TargetFields2

\* the number of rows of output f: labels and label_weights are 1-D
Rows(out, f) ==
    IF f \in {"labels", "label_weights"} THEN Len(out[f]) ELSE out[f].n

RECURSIVE TotalSamples(_)
TotalSamples(sr) ==
    IF sr = <<>> THEN 0 ELSE NumSamples(Head(sr)) + TotalSamples(Tail(sr))

\* the number of rows that come before image a's rows
Offset(sr, a) == TotalSamples(SubSeq(sr, 1, a - 1))

TargetsDone == args.op = "get_targets" /\ pc = "done" /\ args.concat

(* C1: with concat=True get_targets returns ten tensors that all have      *)
(* sum(num_pos + num_neg) rows; the rows are grouped by image in input     *)
(* order and within an image the num_pos positives (recognised by the      *)
(* coder's box target of that very RoI) come first and the num_neg         *)
(* negatives (background label, no box weight) follow; an image without    *)
(* samples contributes no row.                                             *)
C1_RowsAndOrder ==
    TargetsDone =>
        LET sr == args.sampling_results IN
        /\ DOMAIN ret = AllTargetFields
        /\ \A f \in AllTargetFields : Rows(ret, f) = TotalSamples(sr)
        /\ \A a \in 1..Len(sr) :
              LET np == Len(sr[a].pos_bboxes)
                  nn == Len(sr[a].neg_bboxes)
                  off == Offset(sr, a)
              IN  /\ \A p \in 1..np :
                        /\ Row(ret.bbox_targets, off + p) = Row(sr[a].bbox_encode, p)
                        /\ ret.labels[off + p] = sr[a].pos_gt_labels[p]
                  /\ \A q \in 1..nn :
                        /\ ret.labels[off + np + q] = num_classes
                        /\ Row(ret.bbox_weights, off + np + q) = <<0, 0, 0, 0>>

\* a finished call on two images, one without any sample, the other with
\* positives and negatives
C1_Witness ==
    /\ TargetsDone
    /\ Len(args.sampling_results) = 2
    /\ NumSamples(args.sampling_results[1]) = 0
    /\ Len(args.sampling_results[2].pos_bboxes) > 0
    /\ Len(args.sampling_results[2].neg_bboxes) > 0
    /\ Len(ret.labels) = NumSamples(args.sampling_results[2])

\* the outputs of _get_target_single that multi_apply has collected
SingleOutputs ==
    IF args.op = "get_targets" /\ (pc = "multi_apply" \/ ~args.concat)
    THEN {k \in 1..Len(ret) : TRUE} ELSE {}

Ones(k) == [j \in 1..k |-> 1]

Zeros(k) == [j \in 1..k |-> 0]

(* C2: every positive row of _get_target_single has the matched class as   *)
(* label, label weight cfg.pos_weight if that is > 0 and 1 otherwise, box  *)
(* and ratio weights 1, and as bin-classification and bin-offset weights   *)
(* exactly the weights the bin coder returned for it.                      *)
C2_PositiveRows ==
    \A k \in SingleOutputs :
        LET res == args.sampling_results[k]
            out == ret[k]
            w == args.rcnn_train_cfg.pos_weight
        IN  \A p \in 1..Len(res.pos_bboxes) :
              /\ out.labels[p] = res.pos_gt_labels[p]
              /\ out.label_weights[p] = (IF w > 0 THEN w ELSE 1)
              /\ Row(out.bbox_weights, p) = Ones(4)
              /\ Row(out.ratio_weights, p) = Ones(1)
              /\ Row(out.bin_cls_weights, p) = Row(res.bin_encode[2], p)
              /\ Row(out.bin_offset_weights, p) = Row(res.bin_encode[4], p)

\* a positive row whose first corner the bin coder could not encode (weight
\* 0), under pos_weight = 0 and with a negative behind it
C2_Witness ==
    \E k \in SingleOutputs :
        /\ args.rcnn_train_cfg.pos_weight = 0
        /\ Len(args.sampling_results[k].neg_bboxes) > 0
        /\ \E p \in 1..Len(args.sampling_results[k].pos_bboxes) :
              /\ args.sampling_results[k].bin_ok[p] = 0
              /\ At(ret[k].bin_cls_weights, p, 1) = 0
              /\ ret[k].label_weights[p] = 1

(* C3: every negative row of _get_target_single has the background label   *)
(* num_classes, label weight 1, and zero in every box, bin-classification, *)
(* bin-offset and ratio target and weight.                                 *)
C3_NegativeRows ==
    \A k \in SingleOutputs :
        LET res == args.sampling_results[k]
            out == ret[k]
            np == Len(res.pos_bboxes)
        IN  \A q \in 1..Len(res.neg_bboxes) :
              /\ out.labels[np + q] = num_classes
              /\ out.label_weights[np + q] = 1
              /\ \A f \in TargetFields2 :
                    Row(out[f], np + q) = Zeros(out[f].m)

\* a negative row behind positives whose label weight is not 1, and a
\* negative row of an image without positives
C3_Witness ==
    /\ args.op = "get_targets" /\ pc = "multi_apply" /\ Len(ret) = 2
    /\ args.rcnn_train_cfg.pos_weight = 2
    /\ Len(args.sampling_results[1].pos_bboxes) > 0
    /\ Len(args.sampling_results[1].neg_bboxes) > 0
    /\ ret[1].label_weights[1] = 2
    /\ args.sampling_results[2].pos_bboxes = <<>>
    /\ Len(args.sampling_results[2].neg_bboxes) > 0
    /\ ret[2].labels[1] = num_classes

---------------------------------------------------------------------------
(* loss. *)

\* labels a caller may pass: -1 (none), the classes, and the background
LabelDomain == (-1)..num_classes

\* label weights a caller may pass
LabelWeightDomain == {0, 1}

\* element (i, j) of the tensor numbered `base`: the values of a prediction
\* or target tensor name their tensor, row and column
Coded(base, n, m) ==
    Tensor(n, m, [i \in 1..n, j \in 1..m |-> 10000 * base + 100 * i + j])

\* the widths of the five outputs of forward (_init_layers)
out_dim_reg == IF reg_class_agnostic THEN 4 ELSE 4 * num_classes

out_dim_bin_cls ==
    IF reg_class_agnostic THEN 4 * num_bins ELSE 4 * num_bins * num_classes

out_dim_bin_offset == IF reg_class_agnostic THEN 4 ELSE 4 * num_classes

out_dim_ratio == IF reg_class_agnostic THEN 1 ELSE num_classes

RECURSIVE SumAll(_)
\* t.sum()
SumAll(d) == IF d = <<>> THEN 0 ELSE Head(d) + SumAll(Tail(d))

RECURSIVE nonzero(_, _)
\* the positions (1-based, ascending) from position `from` on where the mask holds
nonzero(mask, from) ==
    IF from > Len(mask) THEN <<>>
    ELSE IF mask[from] THEN <<from>> \o nonzero(mask, from + 1)
    ELSE nonzero(mask, from + 1)

\* t[mask] for a 2-D tensor and a boolean row mask
MaskRows(t, mask) ==
    LET idx == nonzero(mask, 1)
    IN  Tensor(Len(idx), t.m,
               [k \in 1..Len(idx), j \in 1..t.m |-> At(t, idx[k], j)])

\* s[mask] for a 1-D tensor
MaskSeq(s, mask) ==
    LET idx == nonzero(mask, 1) IN [k \in 1..Len(idx) |-> s[idx[k]]]

\* pos_inds = (labels >= 0) & (labels < bg_class_ind)
pos_inds_of(labels) ==
    [i \in 1..Len(labels) |-> labels[i] >= 0 /\ labels[i] < num_classes]

\* a plausible slip: the group width left out of the column offset
class_view_gather_narrow(pred, width, mask, labels) ==
    LET idx == nonzero(mask, 1)
        cls == MaskSeq(labels, mask)
    IN  Tensor(Len(idx), width,
               [k \in 1..Len(idx), j \in 1..width |->
                   At(pred, idx[k], cls[k] + j)])

\* pred.view(pred.size(0), -1, width)[mask, labels[mask]]
class_view_gather(pred, width, mask, labels) ==
    LET idx == nonzero(mask, 1)
        cls == MaskSeq(labels, mask)
    IN  Tensor(Len(idx), width,
               [k \in 1..Len(idx), j \in 1..width |->
                   At(pred, idx[k], cls[k] * width + j)])

\* a call of a loss module (mmdet.models.losses): kept as the application
LossCall(fn, pred, target, weight, avg_factor, reduction_override) ==
    [fn |-> fn, pred |-> pred, target |-> target, weight |-> weight,
     avg_factor |-> avg_factor, reduction_override |-> reduction_override]

\* pred.sum() * 0: the value, and the tensor the graph of the value leads to
SumTimesZero(pred) == [fn |-> "sum*0", input |-> pred, value |-> SumAll(pred.d) * 0]

\* a plausible slip: every zero loss taken from bbox_pred
zero_losses_from_bbox_pred(bbox_pred, bin_cls_pred, bin_offset_pred, ratio_pred) ==
    [loss_bbox |-> SumTimesZero(bbox_pred),
     loss_bin_cls |-> SumTimesZero(bbox_pred),
     loss_bin_offset |-> SumTimesZero(bbox_pred),
     loss_ratio |-> SumTimesZero(bbox_pred)]

\* the else branch of `if pos_inds.any()`
zero_losses(bbox_pred, bin_cls_pred, bin_offset_pred, ratio_pred) ==
    [loss_bbox |-> SumTimesZero(bbox_pred),
     loss_bin_cls |-> SumTimesZero(bin_cls_pred),
     loss_bin_offset |-> SumTimesZero(bin_offset_pred),
     loss_ratio |-> SumTimesZero(ratio_pred)]

\* a plausible slip: the floor of 1 left out
cls_avg_factor_without_floor(label_weights) ==
    Len(nonzero([i \in 1..Len(label_weights) |-> label_weights[i] > 0], 1))

\* max(torch.sum(label_weights > 0).float().item(), 1.)
cls_avg_factor(label_weights) ==
    LET cnt == Len(nonzero([i \in 1..Len(label_weights) |-> label_weights[i] > 0], 1))
    IN  IF cnt > 1 THEN cnt ELSE 1

loss(a) ==
    LET avg_factor == cls_avg_factor(a.label_weights)
        cls_losses ==
            IF a.cls_score.n * a.cls_score.m > 0
            THEN [loss_cls |-> LossCall("loss_cls", a.cls_score, a.labels,
                                        a.label_weights, avg_factor,
                                        a.reduction_override),
                  acc |-> [fn |-> "accuracy", pred |-> a.cls_score,
                           target |-> a.labels]]
            ELSE <<>>
        pos_inds == pos_inds_of(a.labels)
        any == \E i \in 1..Len(pos_inds) : pos_inds[i]
        pos(pred, width) ==
            IF reg_class_agnostic
            THEN MaskRows(pred, pos_inds)
            ELSE class_view_gather(pred, width, pos_inds, a.labels)
    IN  IF any
        THEN cls_losses @@
             [loss_bbox |->
                 LossCall("loss_bbox", pos(a.bbox_pred, 4),
                          MaskRows(a.bbox_targets, pos_inds),
                          MaskRows(a.bbox_weights, pos_inds),
                          a.bbox_targets.n, a.reduction_override),
              loss_bin_cls |->
                 LossCall("loss_bin_cls", pos(a.bin_cls_pred, 4 * num_bins),
                          MaskRows(a.bin_cls_targets, pos_inds),
                          MaskRows(a.bin_cls_weights, pos_inds),
                          a.bin_cls_targets.n * num_bins, a.reduction_override),
              loss_bin_offset |->
                 LossCall("loss_bin_offset", pos(a.bin_offset_pred, 4),
                          MaskRows(a.bin_offset_targets, pos_inds),
                          MaskRows(a.bin_offset_weights, pos_inds),
                          a.bin_offset_targets.n, a.reduction_override),
              loss_ratio |->
                 LossCall("loss_ratio", pos(a.ratio_pred, 1),
                          MaskRows(a.ratio_targets, pos_inds),
                          MaskRows(a.ratio_weights, pos_inds),
                          a.ratio_targets.n, a.reduction_override)]
        ELSE cls_losses @@
             zero_losses(a.bbox_pred, a.bin_cls_pred, a.bin_offset_pred,
                         a.ratio_pred)

\* the arguments of a call of loss on n samples
LossArgs(n, labels, label_weights) ==
    [op |-> "loss",
     cls_score |-> Coded(1, n, num_classes + 1),
     bbox_pred |-> Coded(2, n, out_dim_reg),
     bin_cls_pred |-> Coded(3, n, out_dim_bin_cls),
     bin_offset_pred |-> Coded(4, n, out_dim_bin_offset),
     ratio_pred |-> Coded(5, n, out_dim_ratio),
     labels |-> labels,
     label_weights |-> label_weights,
     bbox_targets |-> Coded(6, n, 4),
     bbox_weights |-> Coded(7, n, 4),
     bin_cls_targets |-> Coded(8, n, 4 * num_bins),
     bin_cls_weights |-> Coded(9, n, 4 * num_bins),
     bin_offset_targets |-> Coded(10, n, 4),
     bin_offset_weights |-> Coded(11, n, 4),
     ratio_targets |-> Coded(12, n, 1),
     ratio_weights |-> Coded(13, n, 1),
     reduction_override |-> "None"]

InitLoss ==
    /\ fc_theta = NoLayer
    /\ history = <<>>
    /\ reg_class_agnostic \in BOOLEAN
    /\ \E n \in 0..MaxRows :
       \E labels \in SeqsOfLen(LabelDomain, n) :
       \E label_weights \in SeqsOfLen(LabelWeightDomain, n) :
          args = LossArgs(n, labels, label_weights)
    /\ pc = "call"
    /\ ret = <<>>

Loss ==
    /\ args.op = "loss"
    /\ pc = "call"
    /\ ret' = loss(args)
    /\ pc' = "done"
    /\ UNCHANGED <<reg_class_agnostic, fc_theta, history, args>>

NextLoss == Loss

SpecLoss == InitLoss /\ [][NextLoss]_vars

---------------------------------------------------------------------------
(* Claims about loss. *)

LossDone == args.op = "loss" /\ pc = "done"

\* the samples whose label is a class
Positives == {i \in 1..Len(args.labels) :
                 args.labels[i] >= 0 /\ args.labels[i] < num_classes}

\* the k-th positive sample, in the order of the batch
KthPositive(k) ==
    CHOOSE i \in Positives : Cardinality({x \in Positives : x < i}) = k - 1

RegLossKeys == {"loss_bbox", "loss_bin_cls", "loss_bin_offset", "loss_ratio"}

PredOf(key) ==
    CASE key = "loss_bbox" -> args.bbox_pred
      [] key = "loss_bin_cls" -> args.bin_cls_pred
      [] key = "loss_bin_offset" -> args.bin_offset_pred
      [] key = "loss_ratio" -> args.ratio_pred

TargetOf(key) ==
    CASE key = "loss_bbox" -> args.bbox_targets
      [] key = "loss_bin_cls" -> args.bin_cls_targets
      [] key = "loss_bin_offset" -> args.bin_offset_targets
      [] key = "loss_ratio" -> args.ratio_targets

WeightOf(key) ==
    CASE key = "loss_bbox" -> args.bbox_weights
      [] key = "loss_bin_cls" -> args.bin_cls_weights
      [] key = "loss_bin_offset" -> args.bin_offset_weights
      [] key = "loss_ratio" -> args.ratio_weights

\* the number of values one class has in the prediction of `key`
GroupOf(key) ==
    CASE key = "loss_bbox" -> 4
      [] key = "loss_bin_cls" -> 4 * num_bins
      [] key = "loss_bin_offset" -> 4
      [] key = "loss_ratio" -> 1

(* C4: when no label is in [0, num_classes), an empty batch included, loss *)
(* returns the four keys loss_bbox, loss_bin_cls, loss_bin_offset and      *)
(* loss_ratio, each of value zero and each the sum-times-zero of its own   *)
(* prediction tensor.                                                      *)
C4_ZeroLosses ==
    (LossDone /\ Positives = {}) =>
        /\ RegLossKeys \subseteq DOMAIN ret
        /\ \A key \in RegLossKeys :
              /\ ret[key].fn = "sum*0"
              /\ ret[key].value = 0
              /\ ret[key].input = PredOf(key)

\* a finished call on a non-empty batch of background (and unlabelled)
\* samples only
C4_Witness ==
    /\ LossDone
    /\ Len(args.labels) >= 2
    /\ Positives = {}
    /\ \E i \in 1..Len(args.labels) : args.labels[i] = num_classes
    /\ ret.loss_ratio.input = args.ratio_pred
    /\ "loss_cls" \in DOMAIN ret

(* C5: the samples loss passes to the box, bin-classification, bin-offset  *)
(* and ratio losses are exactly those with a label in [0, num_classes), in *)
(* their order, each with the target and weight rows of the same sample;   *)
(* class-aware, the prediction of a sample with label c is class c's       *)
(* contiguous slice of the sample's row (columns [g*c, g*c + g) for g = 4, *)
(* 4*num_bins, 4 and 1), class-agnostic it is the sample's whole row.      *)
C5_PositiveGather ==
    (LossDone /\ Positives # {}) =>
        \A key \in RegLossKeys :
            LET call == ret[key]
                g == GroupOf(key)
            IN  /\ call.fn = key
                /\ call.pred.n = Cardinality(Positives)
                /\ call.target.n = Cardinality(Positives)
                /\ call.weight.n = Cardinality(Positives)
                /\ call.pred.m = g
                /\ \A k \in 1..Cardinality(Positives) :
                      LET i == KthPositive(k)
                          c == args.labels[i]
                      IN  /\ Row(call.target, k) = Row(TargetOf(key), i)
                          /\ Row(call.weight, k) = Row(WeightOf(key), i)
                          /\ Row(call.pred, k) =
                                IF reg_class_agnostic
                                THEN Row(PredOf(key), i)
                                ELSE [j \in 1..g |-> At(PredOf(key), i, g * c + j)]

\* a finished class-aware call in which a background sample stands between
\* two positives of different classes
C5_Witness ==
    /\ LossDone
    /\ ~reg_class_agnostic
    /\ Len(args.labels) = 3
    /\ args.labels[1] = num_classes - 1
    /\ args.labels[2] = num_classes
    /\ args.labels[3] = 0
    /\ ret.loss_bbox.pred.n = 2
    /\ At(ret.loss_bin_cls.pred, 1, 1) =
          At(args.bin_cls_pred, 1, 4 * num_bins * (num_classes - 1) + 1)

\* the samples whose label weight is positive
Weighted == {i \in 1..Len(args.label_weights) : args.label_weights[i] > 0}

(* C11: the normalisation factor loss hands to the classification loss is  *)
(* the number of samples with label weight > 0, or 1 when there is none;   *)
(* when a positive sample exists, the box, bin-offset and ratio losses get *)
(* the number of rows of the target bundle (positives and negatives        *)
(* alike), and the bin-classification loss gets that number times          *)
(* num_bins.                                                               *)
C11_AvgFactors ==
    LossDone =>
        /\ "loss_cls" \in DOMAIN ret =>
              ret.loss_cls.avg_factor =
                 (IF Weighted = {} THEN 1 ELSE Cardinality(Weighted))
        /\ Positives # {} =>
              /\ ret.loss_bbox.avg_factor = Len(args.labels)
              /\ ret.loss_bin_offset.avg_factor = Len(args.labels)
              /\ ret.loss_ratio.avg_factor = Len(args.labels)
              /\ ret.loss_bin_cls.avg_factor = Len(args.labels) * num_bins

\* a finished call with a positive and a background sample, none of which
\* has a positive label weight
C11_Witness ==
    /\ LossDone
    /\ Len(args.labels) >= 2
    /\ Weighted = {}
    /\ Positives # {}
    /\ Cardinality(Positives) < Len(args.labels)
    /\ ret.loss_cls.avg_factor = 1
    /\ ret.loss_bbox.avg_factor = Len(args.labels)

---------------------------------------------------------------------------
(* get_bboxes. *)

\* at most this many RoIs in a call of get_bboxes
MaxDets == 2

\* ratio predictions tried, in tenths: below, at and above ratio_thr
RatioDomain == {ratio_thr - 1, ratio_thr, ratio_thr + 1}

\* t[:, 1:]
DropFirstColumn(t) ==
    Tensor(t.n, t.m - 1, [i \in 1..t.n, j \in 1..(t.m - 1) |-> At(t, i, j + 1)])

\* t.view(-1, width) of a tensor whose element count is a multiple of width
Regroup(t, width) == [n |-> (t.n * t.m) \div width, m |-> width, d |-> t.d]

(* The coders live outside this file.  bbox_coder.decode moves each RoI by *)
(* its deltas (one group of 4 per class), bin_coder.decode moves the four  *)
(* corners of each box by what the bin prediction says; hbb2poly lists the *)
(* corners (l, t), (r, t), (r, b), (l, b) of a box (l, t, r, b).           *)
bbox_decode(rois, bbox_pred) ==
    Tensor(bbox_pred.n, bbox_pred.m,
           [i \in 1..bbox_pred.n, j \in 1..bbox_pred.m |->
               2 * (At(rois, i, ((j - 1) % 4) + 1) + At(bbox_pred, i, j))])

bin_decode(bboxes, bin_cls_pred, bin_offset_pred) ==
    LET groups == bboxes.m \div 4
    IN  Tensor(bboxes.n, 8 * groups,
               [i \in 1..bboxes.n, j \in 1..(8 * groups) |->
                   LET g == (j - 1) \div 8
                       k == (j - 1) % 8
                   IN  2 * (At(bboxes, i, 4 * g + (k \div 2) + 1)
                            + At(bin_cls_pred, i, 4 * num_bins * g + (k \div 2) + 1)
                            + At(bin_offset_pred, i, 4 * g + (k \div 2) + 1))])

hbb2poly_row(box) ==
    <<box[1], box[2], box[3], box[2], box[3], box[4], box[1], box[4]>>

hbb2poly(bboxes) ==
    Tensor(bboxes.n, 8, [i \in 1..bboxes.n, j \in 1..8 |->
                            hbb2poly_row(Row(bboxes, i))[j]])

\* a plausible slip: `>=`
exceeds_or_equals(ratio_pred) ==
    [e \in 1..Len(ratio_pred) |-> ratio_pred[e] >= ratio_thr]

\* ratio_pred > self.ratio_thr, elementwise on the flattened tensor
exceeds(ratio_pred) == [e \in 1..Len(ratio_pred) |-> ratio_pred[e] > ratio_thr]

\* the rank of a selected row among the selected rows
Rank(mask, i) == Len(nonzero(SubSeq(mask, 1, i), 1))

(* t[mask] = src for a boolean row mask (Tensor.index_put_): src needs one *)
(* row per selected row of t, or a single row to broadcast; anything else  *)
(* raises "shape mismatch: value tensor ... cannot be broadcast to         *)
(* indexing result".                                                       *)
index_put(t, mask, src) ==
    LET k == Len(nonzero(mask, 1))
    IN  IF src.m = t.m /\ (src.n = k \/ src.n = 1)
        THEN [err |-> "none",
              val |-> Tensor(t.n, t.m, [i \in 1..t.n, j \in 1..t.m |->
                         IF mask[i]
                         THEN At(src, IF src.n = k THEN Rank(mask, i) ELSE 1, j)
                         ELSE At(t, i, j)])]
        ELSE [err |-> "RuntimeError", val |-> t]

get_bboxes(a) ==
    LET cls_score == IF a.cls_score_is_list
                     THEN [fn |-> "mean", input |-> a.cls_score]
                     ELSE a.cls_score
        scores == [fn |-> "softmax", input |-> cls_score, dim |-> 1]
        bboxes == bbox_decode(DropFirstColumn(a.rois), a.bbox_pred)
        polys == bin_decode(bboxes, a.bin_cls_pred, a.bin_offset_pred)
        \* the views (n, R, 4) and (n, R, 8), one row per (sample, class)
        bboxes_v == Regroup(bboxes, 4)
        polys_v == Regroup(polys, 8)
        mask == exceeds(a.ratio_pred.d)
        put == index_put(polys_v, mask, hbb2poly(MaskRows(bboxes_v, mask)))
        rescaled ==
            IF a.rescale
            THEN Tensor(put.val.n, 8, [e \in 1..put.val.n, j \in 1..8 |->
                            At(put.val, e, j) \div a.scale_factor])
            ELSE put.val
        out == [n |-> a.rois.n, m |-> 8 * a.ratio_pred.m, d |-> rescaled.d]
    IN  IF put.err # "none" THEN [err |-> put.err]
        ELSE IF a.cfg = "None"
        THEN [err |-> "none", polys |-> out, scores |-> scores]
        ELSE [err |-> "none", polys |-> out, scores |-> scores,
              nms |-> [fn |-> "multiclass_arb_nms", polys |-> out,
                       scores |-> scores, cfg |-> a.cfg]]

BboxesArgs(n, ratio, rescale, cfg, is_list) ==
    [op |-> "get_bboxes",
     rois |-> Coded(14, n, 5),
     cls_score |-> Coded(1, n, num_classes + 1),
     cls_score_is_list |-> is_list,
     bbox_pred |-> Coded(2, n, out_dim_reg),
     bin_cls_pred |-> Coded(3, n, out_dim_bin_cls),
     bin_offset_pred |-> Coded(4, n, out_dim_bin_offset),
     ratio_pred |-> Tensor(n, out_dim_ratio, ratio),
     scale_factor |-> 2,
     rescale |-> rescale,
     cfg |-> cfg]

\* rescale, cfg and the kind of cls_score (a tensor, or the list of
\* test-time augmentation): every pair of values of two of them occurs
CallVariants ==
    {[rescale |-> FALSE, cfg |-> "None", cls_score_is_list |-> FALSE],
     [rescale |-> TRUE, cfg |-> "None", cls_score_is_list |-> TRUE],
     [rescale |-> FALSE, cfg |-> "test_cfg", cls_score_is_list |-> TRUE],
     [rescale |-> TRUE, cfg |-> "test_cfg", cls_score_is_list |-> FALSE]}

InitBboxes ==
    /\ fc_theta = NoLayer
    /\ history = <<>>
    /\ reg_class_agnostic \in BOOLEAN
    /\ \E n \in 0..MaxDets :
       \E ratio \in [(1..n) \X (1..out_dim_ratio) -> RatioDomain] :
       \E v \in CallVariants :
          args = BboxesArgs(n, ratio, v.rescale, v.cfg, v.cls_score_is_list)
    /\ pc = "call"
    /\ ret = <<>>

GetBboxes ==
    /\ args.op = "get_bboxes"
    /\ pc = "call"
    /\ ret' = get_bboxes(args)
    /\ pc' = "done"
    /\ UNCHANGED <<reg_class_agnostic, fc_theta, history, args>>

NextBboxes == GetBboxes

SpecBboxes == InitBboxes /\ [][NextBboxes]_vars

---------------------------------------------------------------------------
(* Claims about get_bboxes. *)

BboxesDone == args.op = "get_bboxes" /\ pc = "done"

\* the box the box coder decodes for sample i and class slot c (from 0)
DecodedBox(a, i, c) ==
    LET b == bbox_decode(DropFirstColumn(a.rois), a.bbox_pred)
    IN  [j \in 1..4 |-> At(b, i, 4 * c + j)]

\* the polygon the bin coder decodes for sample i and class slot c
DecodedPoly(a, i, c) ==
    LET b == bbox_decode(DropFirstColumn(a.rois), a.bbox_pred)
        q == bin_decode(b, a.bin_cls_pred, a.bin_offset_pred)
    IN  [j \in 1..8 |-> At(q, i, 8 * c + j)]

\* the polygon of sample i and class slot c in the output, rescaling undone
OutputPoly(i, c) ==
    [j \in 1..8 |-> At(ret.polys, i, 8 * c + j)
                      * (IF args.rescale THEN args.scale_factor ELSE 1)]

(* C6: for every (sample, class) entry the polygon get_bboxes puts out is, *)
(* before rescaling, the four corners of the box decoded for that sample   *)
(* and class when the entry's ratio prediction is strictly above           *)
(* ratio_thr, and the entry's bin-decoded polygon otherwise (also at       *)
(* ratio = ratio_thr).                                                     *)
C6_RatioSelection ==
    BboxesDone =>
        /\ ret.err = "none"
        /\ ret.polys.n = args.rois.n
        /\ ret.polys.m = 8 * args.ratio_pred.m
        /\ \A i \in 1..args.rois.n : \A c \in 0..(args.ratio_pred.m - 1) :
              OutputPoly(i, c) =
                 IF At(args.ratio_pred, i, c + 1) > ratio_thr
                 THEN LET b == DecodedBox(args, i, c)
                      IN  <<b[1], b[2], b[3], b[2], b[3], b[4], b[1], b[4]>>
                 ELSE DecodedPoly(args, i, c)

\* a finished call in which one entry is above the threshold, the next one
\* is exactly at it, and the two polygons a choice is made between differ
C6_Witness ==
    /\ BboxesDone
    /\ args.rois.n = 2
    /\ At(args.ratio_pred, 1, 1) = ratio_thr + 1
    /\ At(args.ratio_pred, 2, 1) = ratio_thr
    /\ OutputPoly(2, 0) = DecodedPoly(args, 2, 0)
    /\ OutputPoly(1, 0) # DecodedPoly(args, 1, 0)
    /\ hbb2poly_row(DecodedBox(args, 2, 0)) # DecodedPoly(args, 2, 0)

---------------------------------------------------------------------------
(* regress_by_class. *)

\* torch.gather(t, 1, idx): idx holds column numbers from 0; an index
\* outside the row raises
gather(t, idx) ==
    IF idx.n <= t.n /\ \A k \in 1..Len(idx.d) : idx.d[k] >= 0 /\ idx.d[k] < t.m
    THEN [err |-> "none",
          val |-> Tensor(idx.n, idx.m, [i \in 1..idx.n, j \in 1..idx.m |->
                                           At(t, i, At(idx, i, j) + 1)])]
    ELSE [err |-> "RuntimeError", val |-> t]

\* t.view(-1, width): raises when the element count is no multiple of
\* width (a tensor without elements becomes one with no rows)
view(t, width) ==
    IF (t.n * t.m) % width = 0
    THEN [err |-> "none", val |-> Regroup(t, width)]
    ELSE [err |-> "RuntimeError", val |-> t]

\* label[:, None]
Column(s) == Tensor(Len(s), 1, [i \in 1..Len(s), j \in 1..1 |-> s[i]])

\* label = label * 4; inds = torch.stack([label + i for i in range(4)], 1)
stack_inds(label) ==
    Tensor(Len(label), 4, [i \in 1..Len(label), j \in 1..4 |->
                              label[i] * 4 + (j - 1)])

\* the `if not self.reg_class_agnostic:` block
class_select(label, bbox_pred, bin_cls_pred, bin_offset_pred, ratio_pred) ==
    LET ratio == gather(ratio_pred, Column(label))
        viewed == view(bin_cls_pred, 4 * num_classes)
        inds == stack_inds(label)
        bbox == gather(bbox_pred, inds)
        bin_cls == gather(viewed.val, inds)
        bin_offset == gather(bin_offset_pred, inds)
        back == view(bin_cls.val, 4 * num_bins)
    IN  IF \E r \in {ratio, viewed, bbox, bin_cls, bin_offset, back} :
              r.err # "none"
        THEN [err |-> "RuntimeError"]
        ELSE [err |-> "none", bbox_pred |-> bbox.val, bin_cls_pred |-> back.val,
              bin_offset_pred |-> bin_offset.val, ratio_pred |-> ratio.val]

\* a plausible slip: the assertion on bin_cls_pred left out
shape_asserts_without_bin_cls(bbox_pred, bin_cls_pred, bin_offset_pred) ==
    bbox_pred.m = 4 /\ bin_offset_pred.m = 4

\* assert bbox_pred.size(1) == 4; assert bin_cls_pred.size(1) == 4*num_bins;
\* assert bin_offset_pred.size(1) == 4
shape_asserts(bbox_pred, bin_cls_pred, bin_offset_pred) ==
    bbox_pred.m = 4 /\ bin_cls_pred.m = 4 * num_bins /\ bin_offset_pred.m = 4

\* the decoding branches, after the assertions
decode_rois(rois, sel) ==
    LET boxes_in == IF rois.m = 4 THEN rois ELSE DropFirstColumn(rois)
        bboxes == bbox_decode(boxes_in, sel.bbox_pred)
        polys == bin_decode(bboxes, sel.bin_cls_pred, sel.bin_offset_pred)
        \* ratio_pred.squeeze(1)
        mask == exceeds(sel.ratio_pred.d)
        \* polys[ratio_pred > self.ratio_thr] = hbb2poly(bboxes)
        put == index_put(polys, mask, hbb2poly(bboxes))
    IN  IF sel.bin_cls_pred.n # bboxes.n \/ sel.bin_offset_pred.n # bboxes.n
        \* what bin_coder.decode does with tensors of different lengths is
        \* not decided in this file
        THEN [err |-> "decode_rows_differ"]
        ELSE IF put.err # "none" THEN [err |-> put.err]
        ELSE IF rois.m = 4 THEN [err |-> "none", val |-> put.val]
        ELSE [err |-> "none",
              \* torch.cat((rois[:, [0]], polys), dim=1)
              val |-> Tensor(rois.n, 9, [i \in 1..rois.n, j \in 1..9 |->
                                 IF j = 1 THEN At(rois, i, 1)
                                          ELSE At(put.val, i, j - 1)])]

\* the result: the error raised (or "none"), whether a coder's decode was
\* called, the predictions after the class selection, the value returned
regress_by_class(rois, label, bbox_pred, bin_cls_pred, bin_offset_pred, ratio_pred) ==
    IF ~(rois.m = 4 \/ rois.m = 5)
    THEN [err |-> "AssertionError", decoded |-> FALSE, selected |-> FALSE]
    ELSE
    LET sel == IF ~reg_class_agnostic
               THEN class_select(label, bbox_pred, bin_cls_pred,
                                 bin_offset_pred, ratio_pred)
               ELSE [err |-> "none", bbox_pred |-> bbox_pred,
                     bin_cls_pred |-> bin_cls_pred,
                     bin_offset_pred |-> bin_offset_pred,
                     ratio_pred |-> ratio_pred]
    IN  IF sel.err # "none"
        THEN [err |-> sel.err, decoded |-> FALSE, selected |-> FALSE]
        ELSE IF ~shape_asserts(sel.bbox_pred, sel.bin_cls_pred, sel.bin_offset_pred)
        THEN [err |-> "AssertionError", decoded |-> FALSE, selected |-> TRUE,
              sel |-> sel]
        ELSE [decoded |-> TRUE, selected |-> TRUE, sel |-> sel]
             @@ decode_rois(rois, sel)

\* the arguments of a call on n RoIs with the given tensor widths
RegressArgs(n, roi_cols, label, reg, bin_cls, bin_offset, ratio) ==
    [op |-> "regress_by_class",
     rois |-> Coded(14, n, roi_cols),
     label |-> label,
     bbox_pred |-> Coded(2, n, reg),
     bin_cls_pred |-> Coded(3, n, bin_cls),
     bin_offset_pred |-> Coded(4, n, bin_offset),
     ratio_pred |-> Tensor(n, out_dim_ratio, ratio)]

\* ratio predictions tried in refinement, in tenths: at and above ratio_thr
RefineRatioDomain == {ratio_thr, ratio_thr + 1}

\* calls with tensors of the widths forward produces
InitRegress ==
    /\ fc_theta = NoLayer
    /\ history = <<>>
    /\ reg_class_agnostic \in BOOLEAN
    /\ \E n \in 0..MaxRows :
       \E roi_cols \in {4, 5} :
       \E label \in SeqsOfLen(0..(num_classes - 1), n) :
       \E ratio \in [(1..n) \X (1..out_dim_ratio) -> RefineRatioDomain] :
          args = RegressArgs(n, roi_cols, label, out_dim_reg, out_dim_bin_cls,
                             out_dim_bin_offset, ratio)
    /\ pc = "call"
    /\ ret = <<>>

\* calls with RoIs of 3 to 6 columns and with predictions of the widths of
\* either regression mode, whatever the mode of the head is
InitRegressShapes ==
    /\ fc_theta = NoLayer
    /\ history = <<>>
    /\ reg_class_agnostic \in BOOLEAN
    /\ \E n \in 0..MaxRows :
       \E roi_cols \in 3..6 :
       \E label \in SeqsOfLen(0..(num_classes - 1), n) :
       \E reg \in {4, 4 * num_classes} :
       \E bin_cls \in {4 * num_bins, 4 * num_bins * num_classes} :
       \E bin_offset \in {4, 4 * num_classes} :
       \E r \in RefineRatioDomain :
          args = RegressArgs(n, roi_cols, label, reg, bin_cls, bin_offset,
                             [x \in (1..n) \X (1..out_dim_ratio) |-> r])
    /\ pc = "call"
    /\ ret = <<>>

RegressByClass ==
    /\ args.op = "regress_by_class"
    /\ pc = "call"
    /\ ret' = regress_by_class(args.rois, args.label, args.bbox_pred,
                               args.bin_cls_pred, args.bin_offset_pred,
                               args.ratio_pred)
    /\ pc' = "done"
    /\ UNCHANGED <<reg_class_agnostic, fc_theta, history, args>>

NextRegress == RegressByClass

SpecRegress == InitRegress /\ [][NextRegress]_vars

SpecRegressShapes == InitRegressShapes /\ [][NextRegress]_vars

---------------------------------------------------------------------------
(* Claims about regress_by_class. *)

RegressDone == args.op = "regress_by_class" /\ pc = "done"

\* the class slice of row i of a prediction with g values per class
ClassSlice(pred, i, c, g) == [j \in 1..g |-> At(pred, i, g * c + j)]

(* C7: class-aware, on n >= 1 samples with labels in [0, num_classes),     *)
(* regress_by_class goes on with, for each sample with label c, class c's  *)
(* slice of each prediction (the slice loss gathers for that label: 4, 4,  *)
(* 1 and 4*num_bins values), in tensors of n rows in input order;          *)
(* class-agnostic it goes on with the predictions as they came.            *)
C7_ClassSelection ==
    (RegressDone /\ args.rois.n >= 1) =>
        /\ ret.selected
        /\ IF reg_class_agnostic
           THEN /\ ret.sel.bbox_pred = args.bbox_pred
                /\ ret.sel.bin_cls_pred = args.bin_cls_pred
                /\ ret.sel.bin_offset_pred = args.bin_offset_pred
                /\ ret.sel.ratio_pred = args.ratio_pred
           ELSE /\ ret.sel.bbox_pred.n = args.rois.n
                /\ ret.sel.bin_cls_pred.n = args.rois.n
                /\ ret.sel.bin_offset_pred.n = args.rois.n
                /\ ret.sel.ratio_pred.n = args.rois.n
                /\ \A i \in 1..args.rois.n :
                      LET c == args.label[i]
                      IN  /\ Row(ret.sel.bbox_pred, i) =
                                ClassSlice(args.bbox_pred, i, c, 4)
                          /\ Row(ret.sel.bin_offset_pred, i) =
                                ClassSlice(args.bin_offset_pred, i, c, 4)
                          /\ Row(ret.sel.ratio_pred, i) =
                                ClassSlice(args.ratio_pred, i, c, 1)
                          /\ Row(ret.sel.bin_cls_pred, i) =
                                ClassSlice(args.bin_cls_pred, i, c, 4 * num_bins)

\* the class selection went through and left one row per sample
SelectionKeptRows ==
    /\ ret.selected
    /\ ret.sel.bbox_pred.n = args.rois.n
    /\ ret.sel.bin_cls_pred.n = args.rois.n
    /\ ret.sel.bin_offset_pred.n = args.rois.n
    /\ ret.sel.ratio_pred.n = args.rois.n

\* the boxes and polygons the coders decode from the selected predictions
SelBoxes ==
    bbox_decode(IF args.rois.m = 4 THEN args.rois ELSE DropFirstColumn(args.rois),
                ret.sel.bbox_pred)

SelPolys == bin_decode(SelBoxes, ret.sel.bin_cls_pred, ret.sel.bin_offset_pred)

(* C8: for any number of samples and any subset of them whose selected     *)
(* ratio is strictly above ratio_thr, regress_by_class succeeds and        *)
(* returns one row per RoI in input order: the corners of the sample's own *)
(* decoded box if its ratio is above the threshold, its own bin-decoded    *)
(* polygon otherwise, behind the unchanged image id for 5-column RoIs.     *)
(* (Stated for the calls whose class selection kept one row per sample.)   *)
C8_PerSampleSelection ==
    (RegressDone /\ SelectionKeptRows /\ shape_asserts(ret.sel.bbox_pred,
         ret.sel.bin_cls_pred, ret.sel.bin_offset_pred)) =>
        /\ ret.err = "none"
        /\ ret.val.n = args.rois.n
        /\ \A i \in 1..args.rois.n :
              LET poly == IF ret.sel.ratio_pred.d[i] > ratio_thr
                          THEN hbb2poly_row(Row(SelBoxes, i))
                          ELSE Row(SelPolys, i)
              IN  IF args.rois.m = 4
                  THEN Row(ret.val, i) = poly
                  ELSE Row(ret.val, i) = <<At(args.rois, i, 1)>> \o poly

(* C10: regress_by_class ends with an AssertionError, with no coder's      *)
(* decode called and nothing returned, whenever the RoIs have neither 4    *)
(* nor 5 columns, and whenever after the class selection the box           *)
(* prediction has not 4 columns, the bin-classification prediction not     *)
(* 4*num_bins or the bin-offset prediction not 4.                          *)
C10_ShapeAssertions ==
    RegressDone =>
        /\ ~(args.rois.m = 4 \/ args.rois.m = 5) =>
              /\ ret.err = "AssertionError"
              /\ ~ret.decoded
              /\ ~ret.selected
              /\ "val" \notin DOMAIN ret
        /\ (ret.selected /\ (\/ ret.sel.bbox_pred.m # 4
                             \/ ret.sel.bin_cls_pred.m # 4 * num_bins
                             \/ ret.sel.bin_offset_pred.m # 4)) =>
              /\ ret.err = "AssertionError"
              /\ ~ret.decoded
              /\ "val" \notin DOMAIN ret

\* a class-agnostic call on well-formed RoIs in which only the
\* bin-classification prediction has the wrong width
C10_Witness ==
    /\ RegressDone
    /\ reg_class_agnostic
    /\ args.rois.n >= 1
    /\ args.rois.m = 5
    /\ args.bbox_pred.m = 4
    /\ args.bin_offset_pred.m = 4
    /\ args.bin_cls_pred.m # 4 * num_bins
    /\ ret.err = "AssertionError"
    /\ ret.selected

---------------------------------------------------------------------------
(* refine_bboxes. *)

\* t[inds] (rows by position, from 1) of a 2-D tensor
TakeRows(t, inds) ==
    Tensor(Len(inds), t.m, [k \in 1..Len(inds), j \in 1..t.m |->
                               At(t, inds[k], j)])

\* torch.nonzero(rois[:, 0] == i).squeeze(dim=1)
rows_of_image(rois, i) ==
    nonzero([r \in 1..rois.n |-> At(rois, r, 1) = i], 1)

(* pos_keep = 1 - pos_is_gts_; keep_inds = new_ones(num_rois);             *)
(* keep_inds[:len(pos_is_gts_)] = pos_keep.  The slice has                 *)
(* min(len, num_rois) elements; pos_keep must have as many, or one.        *)
keep_inds_of(pos_is_gts_, num_rois) ==
    LET len == Len(pos_is_gts_)
        slice == IF len < num_rois THEN len ELSE num_rois
    IN  IF len = slice \/ len = 1
        THEN [err |-> "none",
              val |-> [p \in 1..num_rois |->
                          IF p <= slice THEN 1 - pos_is_gts_[IF len = 1 THEN 1 ELSE p]
                                        ELSE 1]]
        ELSE [err |-> "RuntimeError"]

\* one turn of `for i in range(len(img_metas))`, for image i (from 0)
refine_image(a, i) ==
    LET inds == rows_of_image(a.rois, i)
        num_rois == Len(inds)
        bboxes_ == DropFirstColumn(TakeRows(a.rois, inds))
        label_ == [k \in 1..num_rois |-> a.labels[inds[k]]]
        bboxes == regress_by_class(bboxes_, label_,
                                   TakeRows(a.bbox_preds, inds),
                                   TakeRows(a.bin_cls_preds, inds),
                                   TakeRows(a.bin_offset_preds, inds),
                                   TakeRows(a.ratio_preds, inds))
        keep == keep_inds_of(a.pos_is_gts[i + 1], num_rois)
    IN  IF bboxes.err # "none" THEN [err |-> bboxes.err]
        ELSE IF keep.err # "none" THEN [err |-> keep.err]
        ELSE [err |-> "none",
              val |-> MaskRows(bboxes.val, [p \in 1..num_rois |-> keep.val[p] = 1])]

\* the RoIs of a batch: RoI r has image id ids[r]
RefineRois(ids) ==
    Tensor(Len(ids), 5, [r \in 1..Len(ids), j \in 1..5 |->
                            IF j = 1 THEN ids[r] ELSE 140000 + 100 * r + j])

FlagSeqs(k) == UNION {SeqsOfLen({0, 1}, len) : len \in 0..k}

RECURSIVE FlagLists(_)
\* pos_is_gts: per image a flag for each of its first RoIs (the sampler
\* flags positives only, so no more flags than the image has RoIs)
FlagLists(counts) ==
    IF counts = <<>> THEN {<<>>}
    ELSE {<<f>> \o rest : f \in FlagSeqs(Head(counts)),
                          rest \in FlagLists(Tail(counts))}

InitRefine ==
    /\ fc_theta = NoLayer
    /\ history = <<>>
    /\ reg_class_agnostic \in BOOLEAN
    /\ \E num_imgs \in 1..MaxImgs :
       \E n \in 0..MaxRows :
       \E ids \in SeqsOfLen(0..(MaxImgs - 1), n) :
       \E labels \in SeqsOfLen(0..(num_classes - 1), n) :
       \E ratio \in [(1..n) \X (1..out_dim_ratio) -> RefineRatioDomain] :
       \E gts \in FlagLists([i \in 1..num_imgs |->
                                 Len(rows_of_image(RefineRois(ids), i - 1))]) :
          args = [op |-> "refine_bboxes",
                  rois |-> RefineRois(ids),
                  labels |-> labels,
                  bbox_preds |-> Coded(2, n, out_dim_reg),
                  bin_cls_preds |-> Coded(3, n, out_dim_bin_cls),
                  bin_offset_preds |-> Coded(4, n, out_dim_bin_offset),
                  ratio_preds |-> Tensor(n, out_dim_ratio, ratio),
                  pos_is_gts |-> gts,
                  img_metas |-> num_imgs]
    /\ pc = "call"
    /\ ret = <<>>

\* img_ids = rois[:, 0].long().unique(); assert img_ids.numel() <= len(img_metas)
RefineStart ==
    /\ args.op = "refine_bboxes"
    /\ pc = "call"
    /\ LET img_ids == {At(args.rois, r, 1) : r \in 1..args.rois.n}
       IN  IF Cardinality(img_ids) <= args.img_metas
           THEN /\ pc' = "loop"
                /\ ret' = [err |-> "none", bboxes_list |-> <<>>]
           ELSE /\ pc' = "done"
                /\ ret' = [err |-> "AssertionError"]
    /\ UNCHANGED <<reg_class_agnostic, fc_theta, history, args>>

\* the next turn of the loop; an error ends the call
RefineImage ==
    /\ args.op = "refine_bboxes"
    /\ pc = "loop"
    /\ Len(ret.bboxes_list) < args.img_metas
    /\ LET r == refine_image(args, Len(ret.bboxes_list))
       IN  IF r.err = "none"
           THEN /\ ret' = [ret EXCEPT !.bboxes_list = Append(@, r.val)]
                /\ pc' = pc
           ELSE /\ ret' = [err |-> r.err]
                /\ pc' = "done"
    /\ UNCHANGED <<reg_class_agnostic, fc_theta, history, args>>

\* return bboxes_list
RefineReturn ==
    /\ args.op = "refine_bboxes"
    /\ pc = "loop"
    /\ Len(ret.bboxes_list) = args.img_metas
    /\ pc' = "done"
    /\ UNCHANGED <<reg_class_agnostic, fc_theta, history, args, ret>>

NextRefine == RefineStart \/ RefineImage \/ RefineReturn

SpecRefine == InitRefine /\ [][NextRefine]_vars

---------------------------------------------------------------------------
(* Claims about refine_bboxes. *)

RefineDone == args.op = "refine_bboxes" /\ pc = "done"

\* the RoIs (rows of rois) whose image id is i (from 0)
RoisOfImage(i) == {r \in 1..args.rois.n : At(args.rois, r, 1) = i}

\* the p-th RoI of image i, in the order of rois
KthRoi(i, p) ==
    CHOOSE r \in RoisOfImage(i) :
        Cardinality({x \in RoisOfImage(i) : x < r}) = p - 1

\* the positions of image i that are not flagged as ground truth
KeptPositions(i) ==
    {p \in 1..Cardinality(RoisOfImage(i)) :
        ~(p <= Len(args.pos_is_gts[i + 1]) /\ args.pos_is_gts[i + 1][p] = 1)}

\* the refined RoI of row r: regress_by_class on that row's own data
RefinedRoi(r) ==
    LET c == IF reg_class_agnostic THEN 0 ELSE args.labels[r]
        roi == Tensor(1, 4, [i \in 1..1, j \in 1..4 |-> At(args.rois, r, j + 1)])
        slice(pred, g) == [n |-> 1, m |-> g, d |-> ClassSlice(pred, r, c, g)]
        box == bbox_decode(roi, slice(args.bbox_preds, 4))
        poly == bin_decode(box, slice(args.bin_cls_preds, 4 * num_bins),
                           slice(args.bin_offset_preds, 4))
    IN  IF At(args.ratio_preds, r, c + 1) > ratio_thr
        THEN hbb2poly_row(Row(box, 1))
        ELSE Row(poly, 1)

(* C9: refine_bboxes returns a list with one entry per element of          *)
(* img_metas, in image order; entry i holds, in their order, the refined   *)
(* RoIs of the rows whose image id is i, without those at a position p     *)
(* below len(pos_is_gts[i]) with pos_is_gts[i][p] = 1; an image without    *)
(* RoIs has an empty entry.  (Stated for the calls that pass the assertion *)
(* on the image ids and in which no coder is handed tensors of different   *)
(* lengths.)                                                               *)
C9_RefinedPerImage ==
    (RefineDone /\ ret.err \notin {"AssertionError", "decode_rows_differ"}) =>
        /\ ret.err = "none"
        /\ Len(ret.bboxes_list) = args.img_metas
        /\ \A i \in 0..(args.img_metas - 1) :
              LET entry == ret.bboxes_list[i + 1]
                  kept == KeptPositions(i)
              IN  /\ entry.n = Cardinality(kept)
                  /\ \A k \in 1..entry.n :
                        LET p == CHOOSE q \in kept :
                                    Cardinality({x \in kept : x < q}) = k - 1
                        IN  Row(entry, k) = RefinedRoi(KthRoi(i, p))

---------------------------------------------------------------------------
(* forward and affine_trans.  x is carried flattened: one row of            *)
(* in_features values per RoI.  What the layers created by _init_layers,    *)
(* F.affine_grid and F.grid_sample compute is kept as uninterpreted terms;  *)
(* fc_theta is computed.  A layer carries the number of the forward call    *)
(* that created it (id), so that two layers with equal parameters are still *)
(* told apart.                                                              *)

\* values of a feature (finite numbers)
FeatDomain == {-1, 2}
\* values of a parameter as written by an update
ParamValues == {-1, 0, 1}
\* values of a parameter as drawn by the initialisation of nn.Linear
\* (uniform over an interval around 0)
InitValues == {-1, 1}

\* torch.tensor([1, 0, 0, 0, 1, 0]): the rows (1, 0, 0) and (0, 1, 0)
IdentityTheta == <<1, 0, 0, 0, 1, 0>>

\* nn.Linear(in, out): a new layer with the parameters its initialisation
\* draws (w for the weight, b for the bias)
nn_Linear(id, in, out, w, b) ==
    [id |-> id, weight |-> new_full(out, in, w), bias |-> [j \in 1..out |-> b]]

\* layer(feats) = feats @ weight.T + bias
apply_linear(layer, feats) ==
    Tensor(feats.n, layer.weight.n,
           [i \in 1..feats.n, j \in 1..layer.weight.n |->
               SumAll([k \in 1..feats.m |->
                          At(feats, i, k) * At(layer.weight, j, k)])
               + layer.bias[j]])

\* a plausible slip: the weight of the new layer is not zeroed
affine_trans_keeps_weight(feats, id, w, b) ==
    LET made == nn_Linear(id, in_features, 6, w, b)
        layer == [made EXCEPT !.bias = IdentityTheta]
    IN  [fc_theta |-> layer, theta |-> apply_linear(layer, feats)]

\* the new layer, stored in self.fc_theta, and the theta it gives
affine_trans(feats, id, w, b) ==
    LET made == nn_Linear(id, in_features, 6, w, b)
        zeroed == [made EXCEPT !.weight = new_zeros(made.weight.n, made.weight.m)]
        layer == [zeroed EXCEPT !.bias = IdentityTheta]
    IN  [fc_theta |-> layer, theta |-> apply_linear(layer, feats)]

Term(fn, input) == [fn |-> fn, input |-> input]

forward(x, id, w, b) ==
    LET a == affine_trans(x, id, w, b)
        grid == [fn |-> "affine_grid", theta |-> a.theta, size |-> <<x.n, x.m>>]
        x_affine == [fn |-> "grid_sample", input |-> x, grid |-> grid]
        x_for_cls == Term("shared_fcs_cls", x_affine)
        x_for_reg == Term("shared_fcs_reg", x)
    IN  [fc_theta |-> a.fc_theta,
         theta |-> a.theta,
         cls_score |-> Term("fc_cls", x_for_cls),
         bbox_pred |-> Term("fc_reg", x_for_reg),
         bin_cls_pred |-> Term("fc_bin_cls", x_for_reg),
         bin_offset_pred |-> Term("sigmoid - 0.5", Term("fc_bin_offset", x_for_reg)),
         ratio_pred |-> Term("sigmoid", Term("fc_ratio", x_for_reg))]

\* how often op occurs in h
RECURSIVE Count(_, _)
Count(h, op) ==
    IF h = <<>> THEN 0
    ELSE (IF Head(h) = op THEN 1 ELSE 0) + Count(Tail(h), op)

InitForward ==
    /\ fc_theta = NoLayer
    /\ history = <<>>
    /\ reg_class_agnostic = FALSE
    /\ \E n \in 0..MaxSamples :
       \E d \in SeqsOfLen(FeatDomain, n * in_features) :
          args = [op |-> "forward", x |-> [n |-> n, m |-> in_features, d |-> d]]
    /\ pc = "idle"
    /\ ret = <<>>

\* one forward call on the batch x
Forward ==
    /\ args.op = "forward"
    /\ Count(history, "forward") < MaxCalls
    /\ \E w \in InitValues, b \in InitValues :
          LET r == forward(args.x, fc_theta.id + 1, w, b)
          IN  /\ fc_theta' = r.fc_theta
              /\ ret' = [f \in DOMAIN r \ {"fc_theta"} |-> r[f]]
    /\ pc' = "done"
    /\ history' = Append(history, "forward")
    /\ UNCHANGED <<reg_class_agnostic, args>>

\* between two calls anything that holds the head may write a parameter of
\* the layer the head holds (an optimizer step, a loaded checkpoint): one
\* element of the weight or of the bias gets another value
UpdateParams ==
    /\ args.op = "forward"
    /\ fc_theta.id # 0
    /\ Count(history, "update") < MaxUpdates
    /\ \/ \E k \in 1..Len(fc_theta.weight.d) :
          \E v \in ParamValues \ {fc_theta.weight.d[k]} :
             fc_theta' = [fc_theta EXCEPT !.weight.d[k] = v]
       \/ \E j \in 1..Len(fc_theta.bias) :
          \E v \in ParamValues \ {fc_theta.bias[j]} :
             fc_theta' = [fc_theta EXCEPT !.bias[j] = v]
    /\ history' = Append(history, "update")
    /\ UNCHANGED <<reg_class_agnostic, args, pc, ret>>

NextForward == Forward \/ UpdateParams

SpecForward == InitForward /\ [][NextForward]_vars

(* C12: whatever forward calls and parameter updates came before, when a   *)
(* forward call has just ended fc_theta is a new layer (the one made by    *)
(* this call) whose weight is all zero and whose bias is                   *)
(* (1, 0, 0, 0, 1, 0), and the theta the call computed has that row for    *)
(* every sample, whatever the features are; nothing the old layer held is  *)
(* left.                                                                   *)
C12_FreshIdentity ==
    (history # <<>> /\ history[Len(history)] = "forward") =>
        /\ fc_theta.id = Count(history, "forward")
        /\ fc_theta.weight.n = 6
        /\ fc_theta.weight.m = in_features
        /\ \A k \in 1..Len(fc_theta.weight.d) : fc_theta.weight.d[k] = 0
        /\ fc_theta.bias = <<1, 0, 0, 0, 1, 0>>
        /\ ret.theta.n = args.x.n
        /\ \A i \in 1..ret.theta.n : Row(ret.theta, i) = <<1, 0, 0, 0, 1, 0>>

\* a second forward call, on a sample, right after an update had changed
\* the layer the first call left
C12_Witness ==
    /\ history = <<"forward", "update", "forward">>
    /\ pc = "done"
    /\ args.x.n = 1
    /\ fc_theta.id = 2
    /\ fc_theta.bias = <<1, 0, 0, 0, 1, 0>>
    /\ ret.theta.n = 1
    /\ Row(ret.theta, 1) = <<1, 0, 0, 0, 1, 0>>

---------------------------------------------------------------------------
(* The head as a whole: one call of any of its methods. *)

Init == \/ InitTargets
        \/ InitLoss
        \/ InitBboxes
        \/ InitRegress
        \/ InitRegressShapes
        \/ InitRefine
        \/ InitForward

Next == \/ NextTargets
        \/ NextLoss
        \/ NextBboxes
        \/ NextRegress
        \/ NextRefine
        \/ NextForward

Spec == Init /\ [][Next]_vars

=============================================================================
